---- MODULE Spec2Model ----
(***************************************************************************)
(* The document ingestion pipeline of nilavu: the file-upload route, the   *)
(* URL route and the synthesis analysis route as concurrent request        *)
(* handlers over one database (projects, data_sources, summaries,          *)
(* synthesis_parameters, synthesis_values) and one storage bucket, the     *)
(* synthesis table's cell lookup, and the server action createProject.     *)
(*                                                                         *)
(* A handler runs from one await to the next as one step.  The hosted      *)
(* services (storage, partitioning, transcription, chat completion, page   *)
(* fetch, database) answer nondeterministically.  A database or storage    *)
(* call resolves to {data, error} and never rejects; the AI, parsing and   *)
(* fetch clients reject (throw) on failure.                                *)
(***************************************************************************)
EXTENDS Naturals, Integers, Sequences, FiniteSets, TLC

(***************************************************************************)
(* Bounds of the model.                                                    *)
(***************************************************************************)
\* Number of request handlers that may be in flight together.
NumReq == 2
\* Number of service failures (error results, throws) injected in one behaviour.
MaxFaults == 2
\* Length of the message of a thrown service error.
ErrMsgLen == 30
\* Date.now() values a file request may observe.
MaxStamp == 1

(***************************************************************************)
(* Program constants.                                                      *)
(***************************************************************************)
\* extractedText.length > 50 (file route), extractedText.length < 50 (URL route)
MinContentLength == 50
\* content.substring(0, 8000) in the file route's sentence prompt
FilePromptLimit == 8000
\* content.length > 12000 ? content.substring(0, 12000) + "..." in the URL route
UrlPromptLimit == 12000
\* "[Text extraction failed: " ... "]"
ExtractionFailedFrame == 26
\* "[Document uploaded but text extraction failed: " ... "]"
DocumentFailedFrame == 48
\* "[" ... " file - content not extracted. Supported types: ...]"
NotExtractedFrame == 85
\* 'Unstructured API returned unexpected response format'
UnexpectedFormatLen == 52

Req == 1..NumReq

NoUser == ""
Users == {"alice", "bob"}
ProjectIds == {"p1", "p9"}
Urls == {"https://a", "https://b"}
InvalidUrl == "not a url"
FileTypes == {"text/plain", "audio/mpeg", "application/pdf", "image/png"}
FileNames == {<<"a", " ", "b", ".", "t">>}
EnvKeys == {"OPENAI_API_KEY", "NEXT_PUBLIC_SUPABASE_URL", "SUPABASE_SERVICE_ROLE_KEY",
            "UNSTRUCTURED_API_KEY"}

\* dataSourceStatusEnum
DataSourceStatus == {"pending", "processing", "processed", "failed"}
\* summaryLevelEnum
SummaryLevel == {"sentence", "paragraph", "full"}

(***************************************************************************)
(* Texts are kept by what the code reads of them: where they come from and *)
(* their length.                                                           *)
(***************************************************************************)
Text(kind, len) == [kind |-> kind, len |-> len]
EmptyText == Text("empty", 0)
TextLens == {MinContentLength - 1, MinContentLength, MinContentLength + 1}
Min(a, b) == IF a < b THEN a ELSE b

NoId == <<>>
NoResponse == [code |-> 0, error |-> "", success |-> FALSE, status |-> ""]
NoFile == [present |-> FALSE, type |-> "", name |-> <<>>]
NoAnalysis == [suggestedParameters |-> <<>>, extractedValues |-> {}]

IdleFrame ==
    [kind |-> "none", userId |-> NoUser, projectId |-> "", url |-> "", file |-> NoFile,
     extractedText |-> EmptyText, dataSourceId |-> 0,
     sentenceContent |-> EmptyText, sentenceRecord |-> NoId,
     paragraphContent |-> EmptyText, paragraphRecord |-> NoId,
     fullContent |-> EmptyText,
     dataSources |-> {}, analysisResult |-> NoAnalysis,
     insertedParameters |-> <<>>, valuesToInsert |-> {}]

VARIABLES
    env,                  \* process.env: the configured keys
    projects,             \* table projects
    storage,              \* bucket 'documents': the object paths
    data_sources,         \* table data_sources
    summaries,            \* table summaries
    synthesis_parameters, \* table synthesis_parameters
    synthesis_values,     \* table synthesis_values
    pc,                   \* each handler's position
    frame,                \* each handler's request and local variables
    calls,                \* each handler's external calls so far, in order
    response,             \* each handler's response
    faults,               \* service failures injected so far
    synthesisValues,      \* SynthesisTable props: the values array
    editingCell,          \* SynthesisTable state: the cell being edited
    editValue             \* SynthesisTable state: the text of the cell's input

dbVars == <<projects, storage, data_sources, summaries, synthesis_parameters,
            synthesis_values>>
tableVars == <<synthesisValues, editingCell, editValue>>
vars == <<env, projects, storage, data_sources, summaries, synthesis_parameters,
          synthesis_values, pc, frame, calls, response, faults, synthesisValues,
          editingCell, editValue>>

(***************************************************************************)
(* Helpers of the handlers.                                                *)
(***************************************************************************)
\* An external call may fail while the failure budget lasts.
Outcomes == IF faults < MaxFaults THEN {"ok", "fail"} ELSE {"ok"}
Charge(outcome) == faults' = faults + (IF outcome = "ok" THEN 0 ELSE 1)

\* One external call: the service operation, the text handed to it, how it ended.
Call(op, input, result) == [op |-> op, input |-> input, result |-> result]
Logged(r, entries) == calls' = [calls EXCEPT ![r] = calls[r] \o entries]

\* NextResponse.json({ error }, { status })
ErrorResponse(code, error) ==
    [code |-> code, error |-> error, success |-> FALSE, status |-> ""]
\* NextResponse.json({ success: true, dataSource: { ..., status } })
SuccessResponse(status) ==
    [code |-> 200, error |-> "", success |-> TRUE, status |-> status]

Respond(r, resp) ==
    /\ pc' = [pc EXCEPT ![r] = "done"]
    /\ response' = [response EXCEPT ![r] = resp]

Goto(r, label) ==
    /\ pc' = [pc EXCEPT ![r] = label]
    /\ UNCHANGED response

\* The query does not filter by the requester.
OwnedProjectAnyUser(projectId, userId) == {p \in projects : p.id = projectId}
\* .from("projects").select("*").eq("id", projectId).eq("user_id", userId).single()
OwnedProject(projectId, userId) ==
    {p \in projects : p.id = projectId /\ p.user_id = userId}

(***************************************************************************)
(* The file route: POST /api/upload                                        *)
(***************************************************************************)
RECURSIVE Join(_)
Join(chars) == IF chars = <<>> THEN "" ELSE Head(chars) \o Join(Tail(chars))

SafeChars == {"a", "b", "t", ".", "-", "0", "1"}
\* file.name.replace(/[^a-zA-Z0-9.-]/g, '_')
SanitizedName(name) ==
    [i \in DOMAIN name |-> IF name[i] \in SafeChars THEN name[i] ELSE "_"]

\* `${userId}/${projectId}/${timestamp}_${sanitizedName}`
StoragePath(userId, projectId, timestamp, name) ==
    userId \o "/" \o projectId \o "/" \o ToString(timestamp) \o "_"
        \o Join(SanitizedName(name))

\* serviceClient.storage.from('documents').getPublicUrl(fileName)
PublicUrl(path) == "storage://documents/" \o path

IsAudio(type) == type \in {"audio/mpeg"}
IsDocument(type) == type \in {"application/pdf"}

\* getDocumentType(mimeType)
getDocumentType(mimeType) ==
    IF mimeType = "application/pdf" THEN "pdf"
    ELSE IF IsAudio(mimeType) THEN "audio"
    ELSE IF mimeType = "text/plain" THEN "txt"
    ELSE "document"

Files == {[present |-> TRUE, type |-> t, name |-> n] : t \in FileTypes, n \in FileNames}

\* The keys the file route requires before it does anything else.
FileEnvKeys == EnvKeys
UrlEnvKeys == {"OPENAI_API_KEY"}

\* The request goes on without a user.
OnUnauthenticatedContinue(r) == Goto(r, "verifyProject")
\* if (!userId) return NextResponse.json({ error: "Unauthorized" }, { status: 401 })
OnUnauthenticated(r) == Respond(r, ErrorResponse(401, "Unauthorized"))

\* Lines 10-56: env checks, auth(), formData, the two 4xx early returns.
FileBegin(r) ==
    /\ pc[r] = "idle"
    /\ UNCHANGED <<env, dbVars, calls, faults, tableVars>>
    /\ IF ~(FileEnvKeys \subseteq env)
       THEN /\ frame' = [frame EXCEPT ![r].kind = "file"]
            /\ Respond(r, ErrorResponse(500, "configuration missing"))
       ELSE \E userId \in Users \cup {NoUser} :
            IF userId = NoUser
            THEN /\ frame' = [frame EXCEPT ![r].kind = "file"]
                 /\ OnUnauthenticated(r)
            ELSE \E projectId \in ProjectIds \cup {""}, file \in Files \cup {NoFile} :
                 /\ frame' = [frame EXCEPT ![r].kind = "file", ![r].userId = userId,
                                           ![r].projectId = projectId, ![r].file = file]
                 /\ IF projectId = "" \/ ~file.present
                    THEN Respond(r, ErrorResponse(400, "Project ID and file are required"))
                    ELSE Goto(r, "verifyProject")

\* Lines 58-68 (file), 45-55 (URL), 29-39 (analysis): verify project ownership.
VerifyProject(r) ==
    /\ pc[r] = "verifyProject"
    /\ \E outcome \in Outcomes :
        /\ Charge(outcome)
        /\ Logged(r, <<Call("projects.select", EmptyText, outcome)>>)
        /\ IF outcome # "ok" \/ OwnedProject(frame[r].projectId, frame[r].userId) = {}
           THEN Respond(r, ErrorResponse(404, "Project not found"))
           ELSE Goto(r, CASE frame[r].kind = "file" -> "upload"
                          [] frame[r].kind = "url" -> "checkExisting"
                          [] OTHER -> "fetchSources")
    /\ UNCHANGED <<env, dbVars, frame, tableVars>>

\* The upload is tried again.
OnUploadErrorRetry(r) == Goto(r, "upload")
\* What the file route does when the storage upload returned an error.
OnUploadError(r) == Respond(r, ErrorResponse(500, "Failed to upload file"))

\* The upload replaces an object that is already stored under the path.
UpsertEnabled == TRUE
\* upsert: false
Upsert == FALSE

\* An object of the bucket: its path, and the request that uploaded its content.
StorageObject(path, r) == [name |-> path, by |-> r]
StoredAt(path) == {o \in storage : o.name = path}

\* storage.upload(fileName, fileBuffer, { upsert }): the bucket afterwards
Uploaded(path, r) == (storage \ StoredAt(path)) \cup {StorageObject(path, r)}

\* Lines 70-94: upload to storage with upsert: false.
FileStorageUpload(r) ==
    /\ pc[r] = "upload"
    /\ frame[r].kind = "file"
    /\ \E timestamp \in 1..MaxStamp :
        LET fileName == StoragePath(frame[r].userId, frame[r].projectId, timestamp,
                                    frame[r].file.name)
        IN \E outcome \in (IF StoredAt(fileName) # {} /\ ~Upsert
                            THEN {"exists"} ELSE Outcomes) :
            /\ faults' = faults + (IF outcome = "fail" THEN 1 ELSE 0)
            /\ Logged(r, <<Call("storage.upload", EmptyText, outcome)>>)
            /\ IF outcome = "ok"
               THEN /\ storage' = Uploaded(fileName, r)
                    /\ frame' = [frame EXCEPT ![r].url = PublicUrl(fileName)]
                    /\ Goto(r, "extract")
               ELSE /\ UNCHANGED <<storage, frame>>
                    /\ OnUploadError(r)
    /\ UNCHANGED <<env, projects, data_sources, summaries, synthesis_parameters,
                   synthesis_values, tableVars>>

\* `[Text extraction failed: ${message}]`
ExtractionFailedText(messageLen) == Text("placeholder", ExtractionFailedFrame + messageLen)
\* `[Document uploaded but text extraction failed: ${message}]`
DocumentFailedText(messageLen) == Text("placeholder", DocumentFailedFrame + messageLen)
\* `[${file.type} file - content not extracted. Supported types: ...]`
NotExtractedText(type) == Text("placeholder", NotExtractedFrame + Len(type))

\* Summaries are generated before the data_sources row is inserted.
AfterExtractionSummarise == "sentenceChat"
\* Where the file route goes once extractedText is set.
AfterExtraction == "insert"

\* extractedText is set and the route goes on.
Extracted(r, text, entries) ==
    /\ frame' = [frame EXCEPT ![r].extractedText = text]
    /\ Logged(r, entries)
    /\ Goto(r, AfterExtraction)

\* The extraction error reaches the route's catch, which answers 500.
ExtractionAborts(r, text, entries) ==
    /\ UNCHANGED frame
    /\ Logged(r, entries)
    /\ Respond(r, ErrorResponse(500, "Upload failed"))
\* catch (unstructuredError), catch (extractionError): log, set the placeholder, go on.
ExtractionFailed(r, text, entries) == Extracted(r, text, entries)

\* Lines 96-175: text extraction by file type.
FileExtract(r) ==
    /\ pc[r] = "extract"
    /\ LET type == frame[r].file.type
       IN IF type = "text/plain"
          THEN \E len \in TextLens :
                /\ Extracted(r, Text("document", len), <<>>)
                /\ UNCHANGED faults
          ELSE IF IsAudio(type)
          THEN \E outcome \in Outcomes :
                /\ Charge(outcome)
                /\ IF outcome = "ok"
                   THEN \E len \in TextLens :
                        Extracted(r, Text("document", len),
                                  <<Call("openai.transcribe", EmptyText, outcome)>>)
                   ELSE ExtractionFailed(r, ExtractionFailedText(ErrMsgLen),
                                  <<Call("openai.transcribe", EmptyText, outcome)>>)
          ELSE IF IsDocument(type)
          THEN \E outcome \in Outcomes \cup (IF faults < MaxFaults THEN {"notArray"} ELSE {}) :
                /\ Charge(outcome)
                /\ IF outcome = "ok"
                   THEN \E len \in TextLens :
                        Extracted(r, Text("document", len),
                                  <<Call("unstructured.partition", EmptyText, outcome)>>)
                   ELSE ExtractionFailed(r, DocumentFailedText(IF outcome = "notArray"
                                                               THEN UnexpectedFormatLen
                                                               ELSE ErrMsgLen),
                                  <<Call("unstructured.partition", EmptyText, outcome)>>)
          ELSE /\ Extracted(r, NotExtractedText(type), <<>>)
               /\ UNCHANGED faults
    /\ UNCHANGED <<env, dbVars, tableVars>>

\* The insert leaves the status to the column default.
InsertStatusPending == "pending"
\* status: "processing" in the insert of both routes
InsertStatus == "processing"
\* .update({ status: "processed" })
UpdatedStatus == "processed"

\* The file route uses the URL route's comparison.
FileSummarisesFrom(text) == text.len >= MinContentLength
\* if (extractedText && extractedText.length > 50)
FileSummarises(text) == text.len > 0 /\ text.len > MinContentLength

\* The uploaded object is removed again when the insert failed.
StorageCleanedUp(r) == {o \in storage : o.by # r}
\* if (insertError) { console.error(...); return 500 }: the bucket is not touched
StorageOnInsertError(r) == storage

\* Lines 177-201: insert the data_sources row, then decide on summaries.
FileInsertDataSource(r) ==
    /\ pc[r] = "insert"
    /\ frame[r].kind = "file"
    /\ \E outcome \in Outcomes :
        /\ Charge(outcome)
        /\ Logged(r, <<Call("data_sources.insert", EmptyText, outcome)>>)
        /\ IF outcome = "ok"
           THEN /\ data_sources' = data_sources \cup
                       {[id |-> r, project_id |-> frame[r].projectId,
                         type |-> getDocumentType(frame[r].file.type),
                         content_url |-> frame[r].url, status |-> InsertStatus]}
                /\ frame' = [frame EXCEPT ![r].dataSourceId = r]
                /\ Goto(r, IF FileSummarises(frame[r].extractedText)
                           THEN "sentenceChat" ELSE "update")
           ELSE /\ UNCHANGED <<data_sources, frame>>
                /\ Respond(r, ErrorResponse(500, "Failed to create data source record"))
        /\ storage' = IF outcome = "ok" THEN storage ELSE StorageOnInsertError(r)
    /\ UNCHANGED <<env, projects, summaries, synthesis_parameters,
                   synthesis_values, tableVars>>

(***************************************************************************)
(* generateSummaries (the same function in both routes, but for the        *)
(* truncation of the first prompt).                                        *)
(***************************************************************************)
\* file: content.substring(0, 8000); URL: content.substring(0, 12000) + "..."
SentencePromptInput(kind, content) ==
    IF kind = "file"
    THEN Text(content.kind, Min(content.len, FilePromptLimit))
    ELSE IF content.len > UrlPromptLimit
         THEN Text(content.kind, UrlPromptLimit + 3)
         ELSE content
\* The paragraph prompt is built from the document instead of the sentence summary.
ParagraphPromptFromDocument(f) == f.extractedText
\* `...create a shorter paragraph summary:\n\n${sentenceContent}`
ParagraphPromptInput(f) == f.sentenceContent
\* `Create a brief executive summary:\n\n${paragraphContent}`
FullPromptInput(f) == f.paragraphContent

\* A chat completion answers with content, answers without content, or throws.
CompletionOutcomes == IF faults < MaxFaults THEN {"ok", "empty", "throw"} ELSE {"ok"}
\* completion.choices[0]?.message?.content || ""
CompletionContent(level, outcome) == IF outcome = "ok" THEN Text(level, 1) ELSE EmptyText

\* The error is thrown on to the route, whose catch answers 500.
OnSummaryErrorRethrown(r) == Respond(r, ErrorResponse(500, "Upload failed"))
\* catch (error) { console.error(...) }: generateSummaries returns to the route.
OnSummaryError(r) == Goto(r, "update")

\* The insert of a paragraph or full summary repeats the level of the first insert.
StoredLevelCopied(level) == "sentence"
\* level: "sentence", level: "paragraph", level: "full" in the three inserts
StoredLevel(level) == level

\* id: uuid default gen_random_uuid(): a new id for every row inserted
SummaryId(r, level) ==
    <<r, level, Cardinality({i \in DOMAIN calls[r] :
                               calls[r][i].op = "summaries.insert." \o level})>>
SummaryRow(r, level, parent, content) ==
    [id |-> SummaryId(r, level), data_source_id |-> frame[r].dataSourceId,
     parent_id |-> parent, content |-> content, level |-> StoredLevel(level)]

\* Where generateSummaries goes after each of its awaits.
AfterSentenceCompletion == "sentenceInsert"
AfterSentenceInsert == "paragraphChat"
AfterParagraphCompletion == "paragraphInsert"
AfterParagraphInsert == "fullChat"
AfterFullCompletion == "fullInsert"
AfterFullInsert == "update"

\* const xContent = xSummary.choices[0]?.message?.content || ""
WithContent(f, level, text) ==
    CASE level = "sentence" -> [f EXCEPT !.sentenceContent = text]
      [] level = "paragraph" -> [f EXCEPT !.paragraphContent = text]
      [] OTHER -> [f EXCEPT !.fullContent = text]
\* const { data: xRecord } = await supabase.from("summaries").insert(...).select().single()
WithRecord(f, level, id) ==
    CASE level = "sentence" -> [f EXCEPT !.sentenceRecord = id]
      [] level = "paragraph" -> [f EXCEPT !.paragraphRecord = id]
      [] OTHER -> f

\* One chat completion of generateSummaries.
Completion(r, at, level, input, next) ==
    /\ pc[r] = at
    /\ \E outcome \in CompletionOutcomes :
        /\ Charge(outcome)
        /\ Logged(r, <<Call("chat." \o level, input, outcome)>>)
        /\ IF outcome = "throw"
           THEN /\ UNCHANGED frame
                /\ OnSummaryError(r)
           ELSE /\ frame' = [frame EXCEPT ![r] =
                                 WithContent(@, level, CompletionContent(level, outcome))]
                /\ Goto(r, next)
    /\ UNCHANGED <<env, dbVars, tableVars>>

\* One insert into summaries; an error result is not looked at.
SummaryInsert(r, at, level, parent, content, next) ==
    /\ pc[r] = at
    /\ \E outcome \in Outcomes :
        /\ Charge(outcome)
        /\ Logged(r, <<Call("summaries.insert." \o level, content, outcome)>>)
        /\ IF outcome = "ok"
           THEN /\ summaries' = summaries \cup {SummaryRow(r, level, parent, content)}
                /\ frame' = [frame EXCEPT ![r] = WithRecord(@, level, SummaryId(r, level))]
           ELSE UNCHANGED <<summaries, frame>>
        /\ Goto(r, next)
    /\ UNCHANGED <<env, projects, storage, data_sources, synthesis_parameters,
                   synthesis_values, tableVars>>

\* Lines 239-254 (file), 212-227 (URL)
SentenceCompletion(r) ==
    Completion(r, "sentenceChat", "sentence",
               SentencePromptInput(frame[r].kind, frame[r].extractedText),
               AfterSentenceCompletion)
\* Lines 256-265 (file), 229-238 (URL)
SentenceInsert(r) ==
    SummaryInsert(r, "sentenceInsert", "sentence", NoId, frame[r].sentenceContent,
                  AfterSentenceInsert)
\* Lines 267-283 (file), 240-256 (URL)
ParagraphCompletion(r) ==
    Completion(r, "paragraphChat", "paragraph", ParagraphPromptInput(frame[r]),
               AfterParagraphCompletion)
\* Lines 285-295 (file), 258-268 (URL): parent_id: sentenceRecord?.id
ParagraphInsert(r) ==
    SummaryInsert(r, "paragraphInsert", "paragraph", frame[r].sentenceRecord,
                  frame[r].paragraphContent, AfterParagraphInsert)
\* Lines 297-313 (file), 270-286 (URL)
FullCompletion(r) ==
    Completion(r, "fullChat", "full", FullPromptInput(frame[r]), AfterFullCompletion)
\* Lines 315-323 (file), 288-296 (URL): parent_id: paragraphRecord?.id
FullInsert(r) ==
    SummaryInsert(r, "fullInsert", "full", frame[r].paragraphRecord,
                  frame[r].fullContent, AfterFullInsert)

\* The response of a finished upload: the status is the literal "processed".
UploadResponse(r) == SuccessResponse("processed")

\* Lines 203-217 (file), 180-195 (URL): update the status, answer success.
\* The update's result is not looked at.
UpdateStatus(r) ==
    /\ pc[r] = "update"
    /\ \E outcome \in Outcomes :
        /\ Charge(outcome)
        /\ Logged(r, <<Call("data_sources.update", EmptyText, outcome)>>)
        /\ data_sources' =
              IF outcome = "ok"
              THEN {IF d.id = frame[r].dataSourceId
                    THEN [d EXCEPT !.status = UpdatedStatus] ELSE d : d \in data_sources}
              ELSE data_sources
        /\ Respond(r, UploadResponse(r))
    /\ UNCHANGED <<env, projects, storage, summaries, synthesis_parameters,
                   synthesis_values, frame, tableVars>>

(***************************************************************************)
(* The URL route: POST /api/upload/url                                     *)
(***************************************************************************)
\* Lines 9-43: env check, auth(), body, the 4xx early returns.
UrlBegin(r) ==
    /\ pc[r] = "idle"
    /\ UNCHANGED <<env, dbVars, calls, faults, tableVars>>
    /\ IF ~(UrlEnvKeys \subseteq env)
       THEN /\ frame' = [frame EXCEPT ![r].kind = "url"]
            /\ Respond(r, ErrorResponse(500, "configuration missing"))
       ELSE \E userId \in Users \cup {NoUser} :
            IF userId = NoUser
            THEN /\ frame' = [frame EXCEPT ![r].kind = "url"]
                 /\ OnUnauthenticated(r)
            ELSE \E projectId \in ProjectIds \cup {""}, url \in Urls \cup {"", InvalidUrl} :
                 /\ frame' = [frame EXCEPT ![r].kind = "url", ![r].userId = userId,
                                           ![r].projectId = projectId, ![r].url = url]
                 /\ IF projectId = "" \/ url = ""
                    THEN Respond(r, ErrorResponse(400, "Project ID and URL are required"))
                    ELSE IF url = InvalidUrl
                    THEN Respond(r, ErrorResponse(400, "Invalid URL format"))
                    ELSE Goto(r, "verifyProject")

\* .eq("project_id", projectId).eq("content_url", url)
SourcesWithUrl(projectId, url) ==
    {d \in data_sources : d.project_id = projectId /\ d.content_url = url}
\* .single(): the row when exactly one row matches, otherwise no data
Single(rows) == IF Cardinality(rows) = 1 THEN rows ELSE {}

\* Lines 57-70: the duplicate check.
UrlCheckExisting(r) ==
    /\ pc[r] = "checkExisting"
    /\ \E outcome \in Outcomes :
        /\ Charge(outcome)
        /\ Logged(r, <<Call("data_sources.select", EmptyText, outcome)>>)
        /\ LET existingSource ==
                   IF outcome = "ok"
                   THEN Single(SourcesWithUrl(frame[r].projectId, frame[r].url))
                   ELSE {}
           IN IF existingSource # {}
              THEN Respond(r, ErrorResponse(409,
                                  "This URL has already been added to the project"))
              ELSE Goto(r, "fetch")
    /\ UNCHANGED <<env, dbVars, frame, tableVars>>

\* if (!extractedText || extractedText.length < 50)
UrlRejects(text) == text.len = 0 \/ text.len < MinContentLength

\* Lines 72-154: fetch the page, extract its text, the two 400 returns.
UrlFetch(r) ==
    /\ pc[r] = "fetch"
    /\ \E outcome \in Outcomes :
        /\ Charge(outcome)
        /\ Logged(r, <<Call("fetch", EmptyText, outcome)>>)
        /\ IF outcome # "ok"
           THEN /\ UNCHANGED frame
                /\ Respond(r, ErrorResponse(400, "Failed to fetch URL"))
           ELSE \E len \in TextLens :
                /\ frame' = [frame EXCEPT ![r].extractedText = Text("document", len)]
                /\ IF UrlRejects(Text("document", len))
                   THEN Respond(r, ErrorResponse(400,
                                   "Could not extract meaningful content from this URL"))
                   ELSE Goto(r, "insert")
    /\ UNCHANGED <<env, dbVars, tableVars>>

\* Lines 156-178: insert the data_sources row; summaries always follow.
UrlInsertDataSource(r) ==
    /\ pc[r] = "insert"
    /\ frame[r].kind = "url"
    /\ \E outcome \in Outcomes :
        /\ Charge(outcome)
        /\ Logged(r, <<Call("data_sources.insert", EmptyText, outcome)>>)
        /\ IF outcome = "ok"
           THEN /\ data_sources' = data_sources \cup
                       {[id |-> r, project_id |-> frame[r].projectId, type |-> "url",
                         content_url |-> frame[r].url, status |-> InsertStatus]}
                /\ frame' = [frame EXCEPT ![r].dataSourceId = r]
                /\ Goto(r, "sentenceChat")
           ELSE /\ UNCHANGED <<data_sources, frame>>
                /\ Respond(r, ErrorResponse(500, "Failed to create data source record"))
    /\ UNCHANGED <<env, projects, storage, summaries, synthesis_parameters,
                   synthesis_values, tableVars>>

(***************************************************************************)
(* The analysis route: POST /api/synthesis/analyze-sources                 *)
(***************************************************************************)
ParameterNames == {"year"}

\* Lines 6-27: the module's env check, auth(), body, the early returns.
AnalyzeBegin(r) ==
    /\ pc[r] = "idle"
    /\ UNCHANGED <<env, dbVars, calls, faults, tableVars>>
    /\ IF ~("OPENAI_API_KEY" \in env)
       THEN /\ frame' = [frame EXCEPT ![r].kind = "analyze"]
            /\ Respond(r, ErrorResponse(500, "configuration missing"))
       ELSE \E userId \in Users \cup {NoUser} :
            IF userId = NoUser
            THEN /\ frame' = [frame EXCEPT ![r].kind = "analyze"]
                 /\ OnUnauthenticated(r)
            ELSE \E projectId \in ProjectIds \cup {""} :
                 /\ frame' = [frame EXCEPT ![r].kind = "analyze", ![r].userId = userId,
                                           ![r].projectId = projectId]
                 /\ IF projectId = ""
                    THEN Respond(r, ErrorResponse(400, "Project ID required"))
                    ELSE Goto(r, "verifyProject")

\* The status filter is missing.
SourceFilterAny(d) == TRUE
\* .eq("status", "processed")
SourceFilter(d) == d.status = "processed"

\* Lines 41-64: read the project's processed data sources with their summaries.
AnalyzeFetchSources(r) ==
    /\ pc[r] = "fetchSources"
    /\ \E outcome \in Outcomes :
        /\ Charge(outcome)
        /\ Logged(r, <<Call("data_sources.select", EmptyText, outcome)>>)
        /\ LET dataSources == {d \in data_sources :
                                 d.project_id = frame[r].projectId /\ SourceFilter(d)}
           IN IF outcome # "ok" \/ dataSources = {}
              THEN /\ UNCHANGED frame
                   /\ Respond(r, ErrorResponse(400, "No processed sources found"))
              ELSE /\ frame' = [frame EXCEPT ![r].dataSources = {d.id : d \in dataSources}]
                   /\ Goto(r, "analysisChat")
    /\ UNCHANGED <<env, dbVars, tableVars>>

\* What JSON.parse(response) may hold: the parameters suggested, and values keyed
\* by whatever data source id and parameter name the completion wrote.
AnalysisResults ==
    {NoAnalysis} \cup
    {[suggestedParameters |-> <<n>>, extractedValues |-> v] :
        n \in ParameterNames,
        v \in {{}} \cup {{<<d, m>>} : d \in Req, m \in ParameterNames}}

\* Lines 66-141: the analysis completion and the parse of its answer.
AnalyzeCompletion(r) ==
    /\ pc[r] = "analysisChat"
    /\ \E outcome \in Outcomes \cup
                      (IF faults < MaxFaults THEN {"empty", "badJson"} ELSE {}) :
        /\ Charge(outcome)
        /\ Logged(r, <<Call("chat.analysis", EmptyText, outcome)>>)
        /\ IF outcome = "ok"
           THEN \E result \in AnalysisResults :
                /\ frame' = [frame EXCEPT ![r].analysisResult = result]
                /\ Goto(r, "insertParameters")
           ELSE /\ UNCHANGED frame
                /\ Respond(r, ErrorResponse(500,
                       CASE outcome = "empty" -> "No response from OpenAI"
                         [] outcome = "badJson" -> "Invalid response format from AI"
                         [] OTHER -> "Analysis failed"))
    /\ UNCHANGED <<env, dbVars, tableVars>>

\* parametersToInsert: one row for each suggested parameter, in order
ParameterRows(r) ==
    LET suggested == frame[r].analysisResult.suggestedParameters
    IN [i \in DOMAIN suggested |->
           [id |-> <<r, i>>, project_id |-> frame[r].projectId, name |-> suggested[i],
            display_order |-> i - 1]]

Range(seq) == {seq[i] : i \in DOMAIN seq}

\* Lines 143-161: insert the suggested parameters; an error is thrown on.
AnalyzeInsertParameters(r) ==
    /\ pc[r] = "insertParameters"
    /\ \E outcome \in Outcomes :
        /\ Charge(outcome)
        /\ Logged(r, <<Call("synthesis_parameters.insert", EmptyText, outcome)>>)
        /\ IF outcome = "ok"
           THEN /\ synthesis_parameters' = synthesis_parameters \cup Range(ParameterRows(r))
                /\ frame' = [frame EXCEPT ![r].insertedParameters = ParameterRows(r)]
                /\ Goto(r, "insertValues")
           ELSE /\ UNCHANGED <<synthesis_parameters, frame>>
                /\ Respond(r, ErrorResponse(500, "Failed to save parameters"))
    /\ UNCHANGED <<env, projects, storage, data_sources, summaries, synthesis_values,
                   tableVars>>

\* insertedParameters?.find(p => p.name === parameterName): the first match
FindParameter(inserted, name) ==
    LET hits == {i \in DOMAIN inserted : inserted[i].name = name}
    IN IF hits = {} THEN {}
       ELSE {inserted[CHOOSE i \in hits : \A j \in hits : i <= j]}

\* Lines 163-179: one value for each extracted entry whose parameter was inserted
ValuesToInsert(r) ==
    {[parameter_id |-> p.id, data_source_id |-> e[1]] :
        <<e, p>> \in {<<e, p>> \in frame[r].analysisResult.extractedValues
                                     \X Range(frame[r].insertedParameters) :
                          p \in FindParameter(frame[r].insertedParameters, e[2])}}

\* synthesis_values.data_source_id references data_sources.id
ValuesAccepted(values) == \A v \in values : \E d \in data_sources : d.id = v.data_source_id

\* A failed values insert is thrown on like a failed parameters insert.
AnalyzeResponseStrict(r, valuesError) ==
    IF valuesError THEN ErrorResponse(500, "Failed to save values") ELSE SuccessResponse("")
\* What the analysis route answers after the values insert, failed or not.
AnalyzeResponse(r, valuesError) == SuccessResponse("")

\* Lines 163-196: insert the extracted values, answer success.
AnalyzeInsertValues(r) ==
    /\ pc[r] = "insertValues"
    /\ LET valuesToInsert == ValuesToInsert(r)
       IN /\ frame' = [frame EXCEPT ![r].valuesToInsert = valuesToInsert]
          /\ IF valuesToInsert = {}
             THEN /\ UNCHANGED <<synthesis_values, calls, faults>>
                  /\ Respond(r, AnalyzeResponse(r, FALSE))
             ELSE \E outcome \in (IF ValuesAccepted(valuesToInsert)
                                  THEN Outcomes ELSE {"rejected"}) :
                  /\ faults' = faults + (IF outcome = "fail" THEN 1 ELSE 0)
                  /\ Logged(r, <<Call("synthesis_values.insert", EmptyText, outcome)>>)
                  /\ synthesis_values' =
                        IF outcome = "ok" THEN synthesis_values \cup valuesToInsert
                        ELSE synthesis_values
                  /\ Respond(r, AnalyzeResponse(r, outcome # "ok"))
    /\ UNCHANGED <<env, projects, storage, data_sources, summaries, synthesis_parameters,
                   tableVars>>

(***************************************************************************)
(* The pipeline's specification.                                           *)
(***************************************************************************)
NoCell == [dataSourceId |-> "", parameterId |-> ""]

Init ==
    /\ env \in {EnvKeys, EnvKeys \ {"OPENAI_API_KEY"}}
    /\ projects = {[id |-> "p1", user_id |-> "alice"]}
    /\ storage = {}
    /\ data_sources = {}
    /\ summaries = {}
    /\ synthesis_parameters = {}
    /\ synthesis_values = {}
    /\ pc = [r \in Req |-> "idle"]
    /\ frame = [r \in Req |-> IdleFrame]
    /\ calls = [r \in Req |-> <<>>]
    /\ response = [r \in Req |-> NoResponse]
    /\ faults = 0
    /\ synthesisValues = <<>>
    /\ editingCell = NoCell
    /\ editValue = ""

Next ==
    \E r \in Req :
        \/ FileBegin(r)
        \/ UrlBegin(r)
        \/ AnalyzeBegin(r)
        \/ VerifyProject(r)
        \/ FileStorageUpload(r)
        \/ FileExtract(r)
        \/ FileInsertDataSource(r)
        \/ UrlCheckExisting(r)
        \/ UrlFetch(r)
        \/ UrlInsertDataSource(r)
        \/ SentenceCompletion(r)
        \/ SentenceInsert(r)
        \/ ParagraphCompletion(r)
        \/ ParagraphInsert(r)
        \/ FullCompletion(r)
        \/ FullInsert(r)
        \/ UpdateStatus(r)
        \/ AnalyzeFetchSources(r)
        \/ AnalyzeCompletion(r)
        \/ AnalyzeInsertParameters(r)
        \/ AnalyzeInsertValues(r)

Spec == Init /\ [][Next]_vars

(***************************************************************************)
(* The synthesis table (SynthesisTable): the cell lookup and the cell      *)
(* editor.  The ids are uuids: strings of one length with hyphens inside.  *)
(***************************************************************************)
\* Number of synthesis values handed to the table.
MaxValues == 2

\* dataSources and synthesisParameters: the rows and the columns shown
TableSources == {"d-1", "d-2"}
TableParameters == {"1-p", "2-p"}
\* a data source with values that is not shown (it is not 'processed')
HiddenSource == "d-3"
CellTexts == {"", "v"}

Undefined ==
    [id |-> 0, data_source_id |-> "", parameter_id |-> "", value |-> "",
     extracted_value |-> ""]

TableValues ==
    [data_source_id : TableSources \cup {HiddenSource}, parameter_id : TableParameters,
     value : CellTexts, extracted_value : CellTexts]

\* The values arrays of up to MaxValues rows, each row with its own id.
ValueArrays ==
    UNION {{[i \in 1..n |->
               [id |-> i, data_source_id |-> a[i].data_source_id,
                parameter_id |-> a[i].parameter_id, value |-> a[i].value,
                extracted_value |-> a[i].extracted_value]] :
            a \in [1..n -> TableValues]} : n \in 0..MaxValues}

\* The lookup ignores the parameter.
CellKeyBySource(dataSourceId, parameterId) == dataSourceId
\* `${value.data_source_id}-${value.parameter_id}`
CellKey(dataSourceId, parameterId) == dataSourceId \o "-" \o parameterId

\* valuesMap.set(key, value) for each value in order: the last one set stays
valuesMap(key) ==
    LET hits == {i \in DOMAIN synthesisValues :
                    CellKey(synthesisValues[i].data_source_id,
                            synthesisValues[i].parameter_id) = key}
    IN IF hits = {} THEN Undefined
       ELSE synthesisValues[CHOOSE i \in hits : \A j \in hits : j <= i]

\* getCellValue(dataSourceId, parameterId)
getCellValue(dataSourceId, parameterId) == valuesMap(CellKey(dataSourceId, parameterId))

\* currentValue?.value || currentValue?.extracted_value || ""
DisplayValue(cellValue) ==
    IF cellValue.value # "" THEN cellValue.value ELSE cellValue.extracted_value

\* renderCell(dataSource, parameter): the editor, or the value, or 'Click to add'
renderCell(dataSourceId, parameterId) ==
    LET cellValue == getCellValue(dataSourceId, parameterId)
        isEditing == /\ editingCell.dataSourceId = dataSourceId
                     /\ editingCell.parameterId = parameterId
    IN IF isEditing
       THEN [view |-> "input", text |-> editValue]
       ELSE [view |-> "cell",
             text |-> IF DisplayValue(cellValue) # "" THEN DisplayValue(cellValue)
                      ELSE "Click to add"]

pipelineVars == <<env, projects, storage, data_sources, summaries, synthesis_parameters,
                  synthesis_values, pc, frame, calls, response, faults>>

\* startEditing(dataSourceId, parameterId)
startEditing(dataSourceId, parameterId) ==
    /\ editValue' = DisplayValue(getCellValue(dataSourceId, parameterId))
    /\ editingCell' = [dataSourceId |-> dataSourceId, parameterId |-> parameterId]
    /\ UNCHANGED <<synthesisValues, pipelineVars>>

\* cancelEditing()
cancelEditing ==
    /\ editingCell' = NoCell
    /\ editValue' = ""
    /\ UNCHANGED <<synthesisValues, pipelineVars>>

\* saveCell(): nothing is saved
saveCell ==
    /\ editingCell # NoCell
    /\ editingCell' = NoCell
    /\ editValue' = ""
    /\ UNCHANGED <<synthesisValues, pipelineVars>>

InitTable ==
    /\ env = EnvKeys
    /\ projects = {[id |-> "p1", user_id |-> "alice"]}
    /\ storage = {}
    /\ data_sources = {}
    /\ summaries = {}
    /\ synthesis_parameters = {}
    /\ synthesis_values = {}
    /\ pc = [r \in Req |-> "idle"]
    /\ frame = [r \in Req |-> IdleFrame]
    /\ calls = [r \in Req |-> <<>>]
    /\ response = [r \in Req |-> NoResponse]
    /\ faults = 0
    /\ synthesisValues \in ValueArrays
    /\ editingCell = NoCell
    /\ editValue = ""

NextTable ==
    \/ \E d \in TableSources, p \in TableParameters : startEditing(d, p)
    \/ cancelEditing
    \/ saveCell

SpecTable == InitTable /\ [][NextTable]_vars

(***************************************************************************)
(* The server action createProject(formData).                              *)
(***************************************************************************)
\* formData.get(key): a string, or null when the form has no such field
FormValue(text) == [null |-> FALSE, text |-> text]
Null == [null |-> TRUE, text |-> ""]
FormNames == {Null, FormValue(""), FormValue("Thesis"), FormValue("Notes")}
FormDescriptions == {Null, FormValue("about")}

\* redirect('/sign-in'), { error }, { success: true }
Redirected(path) == [redirect |-> path, error |-> "", success |-> FALSE]
Failed(message) == [redirect |-> "", error |-> message, success |-> FALSE]
Succeeded == [redirect |-> "", error |-> "", success |-> TRUE]

\* Only a missing field is refused.
NameMissingOnlyNull(name) == name.null
\* if (!name)
NameMissing(name) == name.null \/ name.text = ""

\* id: uuid default gen_random_uuid()
NewProjectId(r) == "n" \o ToString(r)
\* .insert({ name, description, user_id: userId })
ProjectRow(r) ==
    [id |-> NewProjectId(r), user_id |-> frame[r].userId, name |-> frame[r].name.text,
     description |-> frame[r].description]

\* Lines 25-33: auth(), the redirect, the form fields, the name check.
createProjectBegin(r) ==
    /\ pc[r] = "idle"
    /\ \E userId \in Users \cup {NoUser} :
        IF userId = NoUser
        THEN /\ frame' = [frame EXCEPT ![r] =
                              [kind |-> "createProject", userId |-> NoUser,
                               name |-> Null, description |-> Null]]
             /\ Respond(r, Redirected("/sign-in"))
        ELSE \E name \in FormNames, description \in FormDescriptions :
             /\ frame' = [frame EXCEPT ![r] =
                              [kind |-> "createProject", userId |-> userId,
                               name |-> name, description |-> description]]
             /\ IF NameMissing(name)
                THEN Respond(r, Failed("Project name is required"))
                ELSE Goto(r, "insertProject")
    /\ UNCHANGED <<env, dbVars, calls, faults, tableVars>>

\* Lines 35-51: insert the project, return the error or success.
createProjectInsert(r) ==
    /\ pc[r] = "insertProject"
    /\ \E outcome \in Outcomes :
        /\ Charge(outcome)
        /\ Logged(r, <<Call("projects.insert", EmptyText, outcome)>>)
        /\ IF outcome = "ok"
           THEN /\ projects' = projects \cup {ProjectRow(r)}
                /\ Respond(r, Succeeded)
           ELSE /\ UNCHANGED projects
                /\ Respond(r, Failed("insert failed"))
    /\ UNCHANGED <<env, storage, data_sources, summaries, synthesis_parameters,
                   synthesis_values, frame, tableVars>>

InitialProjects == {[id |-> "p1", user_id |-> "alice"]}

InitProjects ==
    /\ env = EnvKeys
    /\ projects = InitialProjects
    /\ storage = {}
    /\ data_sources = {}
    /\ summaries = {}
    /\ synthesis_parameters = {}
    /\ synthesis_values = {}
    /\ pc = [r \in Req |-> "idle"]
    /\ frame = [r \in Req |-> IdleFrame]
    /\ calls = [r \in Req |-> <<>>]
    /\ response = [r \in Req |-> NoResponse]
    /\ faults = 0
    /\ synthesisValues = <<>>
    /\ editingCell = NoCell
    /\ editValue = ""

NextProjects ==
    \E r \in Req :
        \/ createProjectBegin(r)
        \/ createProjectInsert(r)

SpecProjects == InitProjects /\ [][NextProjects]_vars

(***************************************************************************)
(* What the handlers' call logs say.                                       *)
(***************************************************************************)
Calls(r, op) == {i \in DOMAIN calls[r] : calls[r][i].op = op}
Called(r, op) == Calls(r, op) # {}
CalledWith(r, op, result) == \E i \in Calls(r, op) : calls[r][i].result = result

ChainOps == <<"chat.sentence", "summaries.insert.sentence", "chat.paragraph",
              "summaries.insert.paragraph", "chat.full", "summaries.insert.full">>
IsSummaryCall(c) == c.op \in Range(ChainOps)
SummaryCalls(r) == SelectSeq(calls[r], IsSummaryCall)
Uploads == {r \in Req : frame[r].kind \in {"file", "url"}}
RowsOf(r) == {d \in data_sources : d.id = r}

(***************************************************************************)
(* C1: in every step the status of a data source is written in sequence:   *)
(* a new row has status 'processing', every row's status is 'processing'   *)
(* or 'processed' (never 'pending' or 'failed'), no row disappears, and a  *)
(* row that is 'processed' stays 'processed'.                              *)
(***************************************************************************)
StatusSequentialWrites ==
    [][/\ \A d \in data_sources' :
            /\ d.status \in DataSourceStatus \ {"pending", "failed"}
            /\ (\A e \in data_sources : e.id # d.id) => d.status = "processing"
       /\ \A e \in data_sources :
            \E d \in data_sources' :
                /\ d.id = e.id
                /\ e.status = "processed" => d.status = "processed"]_vars

\* A row inserted as 'processing' by a request whose update then succeeded.
StatusProcessedReached ==
    \E r \in Uploads :
        /\ CalledWith(r, "data_sources.insert", "ok")
        /\ CalledWith(r, "data_sources.update", "ok")
        /\ \E d \in RowsOf(r) : d.status = "processed"

(***************************************************************************)
(* C2: the summary calls of a request are a prefix of the chain sentence   *)
(* completion, sentence insert, paragraph completion, paragraph insert,    *)
(* full completion, full insert; only a throw ends the chain early; each   *)
(* insert stores the output of the completion before it, and the paragraph *)
(* and full completions are given the output of the previous level.        *)
(***************************************************************************)
SummariesStraightLine ==
    \A r \in Req :
        LET s == SummaryCalls(r)
        IN /\ Len(s) <= Len(ChainOps)
           /\ \A i \in DOMAIN s : s[i].op = ChainOps[i]
           /\ \A i \in DOMAIN s : i < Len(s) => s[i].result # "throw"
           /\ (pc[r] \in {"update", "done"} /\ s # <<>> /\ Len(s) < Len(ChainOps))
                 => s[Len(s)].result = "throw"
           /\ \A i \in DOMAIN s :
                 /\ i = 1 => s[i].input.kind \in {"document", "placeholder"}
                 /\ i = 2 => s[i].input = CompletionContent("sentence", s[1].result)
                 /\ i = 3 => s[i].input = CompletionContent("sentence", s[1].result)
                 /\ i = 4 => s[i].input = CompletionContent("paragraph", s[3].result)
                 /\ i = 5 => s[i].input = CompletionContent("paragraph", s[3].result)
                 /\ i = 6 => s[i].input = CompletionContent("full", s[5].result)

\* A request of each route whose chain ran to its end with all three outputs.
SummariesChainCompleted ==
    \E r \in Uploads :
        /\ Len(SummaryCalls(r)) = Len(ChainOps)
        /\ \A i \in {1, 3, 5} : SummaryCalls(r)[i].result = "ok"
        /\ pc[r] = "done"

(***************************************************************************)
(* C3: once a summary completion has thrown (or a summary insert has       *)
(* failed), the request is not answered with an error: it goes on to the   *)
(* status update, and when it is done the update has been issued, the      *)
(* answer is success: true with status 'processed', and the stored status  *)
(* is 'processed' if that update succeeded.                                *)
(***************************************************************************)
SummaryFailed(r) ==
    \E i \in DOMAIN calls[r] :
        /\ IsSummaryCall(calls[r][i])
        /\ calls[r][i].result \in {"throw", "fail"}
SummaryThrew(r) ==
    \E i \in DOMAIN calls[r] : IsSummaryCall(calls[r][i]) /\ calls[r][i].result = "throw"

SummaryFailureSwallowed ==
    \A r \in Req :
        SummaryFailed(r) =>
            /\ SummaryThrew(r) => pc[r] \in {"update", "done"}
            /\ pc[r] = "done" =>
                 /\ Called(r, "data_sources.update")
                 /\ response[r].success
                 /\ response[r].code = 200
                 /\ response[r].status = "processed"
                 /\ CalledWith(r, "data_sources.update", "ok") =>
                        \A d \in RowsOf(r) : d.status = "processed"

\* A finished request one of whose summary completions threw.
SummaryThrowAnswered == \E r \in Uploads : SummaryThrew(r) /\ pc[r] = "done"

(***************************************************************************)
(* C4: no handler issues the same external call twice in one request.      *)
(***************************************************************************)
NoRetry ==
    \A r \in Req :
        \A i, j \in DOMAIN calls[r] : calls[r][i].op = calls[r][j].op => i = j

\* A finished request that saw a failed call, and one that made all its calls.
FailedCallNotRepeated ==
    /\ \E r \in Req :
          /\ pc[r] = "done"
          /\ \E i \in DOMAIN calls[r] : calls[r][i].result # "ok"
    /\ \E r \in Req : pc[r] = "done" /\ Len(calls[r]) >= 9

(***************************************************************************)
(* C5: a file request's calls come in the order storage upload, text       *)
(* extraction, data_sources insert, summary calls, status update; each     *)
(* stage is reached only after the stage before it has returned; and every *)
(* summaries row belongs to an inserted data_sources row.                  *)
(***************************************************************************)
Stage(op) ==
    CASE op = "projects.select" -> 0
      [] op = "storage.upload" -> 1
      [] op \in {"openai.transcribe", "unstructured.partition"} -> 2
      [] op = "data_sources.insert" -> 3
      [] op \in Range(ChainOps) -> 4
      [] op = "data_sources.update" -> 5
      [] OTHER -> 6

FileStagesInOrder ==
    /\ \A r \in Req :
          frame[r].kind = "file" =>
             /\ \A i, j \in DOMAIN calls[r] :
                   i < j => Stage(calls[r][i].op) <= Stage(calls[r][j].op)
             /\ \A i \in DOMAIN calls[r] : Stage(calls[r][i].op) <= 5
             /\ (pc[r] = "insert" \/ Called(r, "data_sources.insert")) =>
                   /\ CalledWith(r, "storage.upload", "ok")
                   /\ frame[r].extractedText # EmptyText
             /\ (SummaryCalls(r) # <<>> \/ Called(r, "data_sources.update")) =>
                   CalledWith(r, "data_sources.insert", "ok")
    /\ \A s \in summaries : \E d \in data_sources : d.id = s.data_source_id

\* A file request that went through all five stages.
FileStagesAllRun ==
    \E r \in Req :
        /\ frame[r].kind = "file"
        /\ pc[r] = "done"
        /\ response[r].success
        /\ Called(r, "unstructured.partition")
        /\ \E s \in summaries : s.data_source_id = r

(***************************************************************************)
(* C6: every data source an analysis request has read is stored with       *)
(* status 'processed', and the upload that created it has finished; a      *)
(* source that is still 'processing' is never among them.                  *)
(***************************************************************************)
AnalysisReadsProcessedOnly ==
    \A r \in Req :
        \A id \in frame[r].dataSources :
            /\ \E d \in data_sources : d.id = id /\ d.status = "processed"
            /\ \A d \in data_sources : d.id = id => d.status # "processing"
            /\ pc[id] = "done"

\* An analysis request that ran while an upload of its project was still
\* 'processing', and read nothing of it.
AnalysisSkippedProcessing ==
    \E r \in Req :
        /\ frame[r].kind = "analyze"
        /\ response[r].error = "No processed sources found"
        /\ CalledWith(r, "data_sources.select", "ok")
        /\ \E d \in data_sources :
              /\ d.project_id = frame[r].projectId
              /\ d.status = "processing"
              /\ pc[d.id] \notin {"idle", "done"}

(***************************************************************************)
(* C7: in the file route a failed transcription or partition (a throw, or  *)
(* an answer that is not an array) does not end the request: extractedText *)
(* is a bracketed placeholder, the route goes on to the data_sources       *)
(* insert, and unless that insert itself fails the request ends with       *)
(* success and status 'processed'.                                         *)
(***************************************************************************)
ExtractionFailedIn(r) ==
    \E i \in DOMAIN calls[r] :
        /\ calls[r][i].op \in {"openai.transcribe", "unstructured.partition"}
        /\ calls[r][i].result # "ok"

ExtractionFailureSwallowed ==
    \A r \in Req :
        ExtractionFailedIn(r) =>
            /\ frame[r].extractedText.kind = "placeholder"
            /\ pc[r] = "insert" \/ Called(r, "data_sources.insert")
            /\ pc[r] = "done" =>
                 IF CalledWith(r, "data_sources.insert", "ok")
                 THEN /\ RowsOf(r) # {}
                      /\ response[r].success
                      /\ response[r].status = "processed"
                 ELSE response[r].error = "Failed to create data source record"

\* A finished file request whose extraction failed and which answered success.
ExtractionFailureAnswered ==
    \E r \in Req :
        /\ ExtractionFailedIn(r)
        /\ pc[r] = "done"
        /\ response[r].success
        /\ RowsOf(r) # {}

(***************************************************************************)
(* C8: when the insert of the synthesis values fails, the analysis route   *)
(* still answers success: true (not an error), and the parameters the      *)
(* request inserted are still stored.                                      *)
(***************************************************************************)
ValuesInsertFailed(r) ==
    \E i \in Calls(r, "synthesis_values.insert") : calls[r][i].result # "ok"

ValuesFailureSwallowed ==
    \A r \in Req :
        (ValuesInsertFailed(r) /\ pc[r] = "done") =>
            /\ response[r].success
            /\ response[r].code = 200
            /\ response[r].error = ""
            /\ frame[r].insertedParameters # <<>>
            /\ Range(frame[r].insertedParameters) \subseteq synthesis_parameters

\* A finished analysis request whose values insert failed.
ValuesFailureAnswered == \E r \in Req : ValuesInsertFailed(r) /\ pc[r] = "done"

(***************************************************************************)
(* C10: a project holds at most one data source with a given content_url.  *)
(***************************************************************************)
OneSourcePerUrl ==
    \A d, e \in data_sources :
        (d.project_id = e.project_id /\ d.content_url = e.content_url) => d.id = e.id

(***************************************************************************)
(* C11: a URL request whose duplicate check runs while its project holds   *)
(* one or more data sources with the submitted URL ends there with the     *)
(* answer 409, and so neither fetches the page nor inserts a row.          *)
(***************************************************************************)
DuplicateUrlRejected ==
    [][\A r \in Req :
          (/\ pc[r] = "checkExisting"
           /\ pc'[r] # "checkExisting"
           /\ SourcesWithUrl(frame[r].projectId, frame[r].url) # {})
          => /\ pc'[r] = "done"
             /\ response'[r].code = 409
             /\ response'[r].error = "This URL has already been added to the project"]_vars

(***************************************************************************)
(* What a request has written: its data_sources row, its summaries, its    *)
(* synthesis parameters and values, its storage objects.                   *)
(***************************************************************************)
SummariesOf(r) == {s \in summaries : s.data_source_id = r}
ParametersBy(r) == {p \in synthesis_parameters : p.id[1] = r}
ValuesBy(r) == {v \in synthesis_values : v.parameter_id[1] = r}
ObjectsBy(r) == {o \in storage : o.by = r}
WroteNothing(r) ==
    /\ RowsOf(r) = {}
    /\ {s \in summaries : s.id[1] = r} = {}
    /\ ParametersBy(r) = {}
    /\ ValuesBy(r) = {}
    /\ ObjectsBy(r) = {}

\* The keys each route checks before auth().
RequiredEnv(kind) ==
    CASE kind = "file" -> FileEnvKeys
      [] kind = "url" -> UrlEnvKeys
      [] OTHER -> {"OPENAI_API_KEY"}
Unauthenticated(r) ==
    /\ frame[r].kind # "none"
    /\ frame[r].userId = NoUser
    /\ RequiredEnv(frame[r].kind) \subseteq env

(***************************************************************************)
(* C12: with the configuration present, a request of any of the three      *)
(* routes that carries no authenticated user is answered 401 at once: it   *)
(* has made no storage, database, AI or parsing call and has written       *)
(* nothing; and no request with a user is answered 401.                    *)
(***************************************************************************)
UnauthenticatedAnswered401 ==
    \A r \in Req :
        /\ Unauthenticated(r) =>
              /\ pc[r] = "done"
              /\ response[r] = ErrorResponse(401, "Unauthorized")
              /\ calls[r] = <<>>
              /\ WroteNothing(r)
        /\ response[r].code = 401 => frame[r].userId = NoUser

\* Two requests of different routes without a user, both answered 401.
UnauthenticatedPair ==
    \E r, q \in Req :
        /\ Unauthenticated(r) /\ Unauthenticated(q)
        /\ frame[r].kind # frame[q].kind
        /\ response[r].code = 401 /\ response[q].code = 401

(***************************************************************************)
(* C13: a request has written something (a storage object, a data_sources  *)
(* row, a summary, a synthesis parameter or value) only if its project     *)
(* belongs to its user and its first call, the ownership query, succeeded; *)
(* every row and object carries that project; and a request whose project  *)
(* does not exist or belongs to another user ends with 404 after that one  *)
(* query, having written nothing.                                          *)
(***************************************************************************)
Owns(userId, projectId) == \E p \in projects : p.id = projectId /\ p.user_id = userId

OwnershipVerifiedBeforeWrite ==
    /\ \A r \in Req :
          /\ ~WroteNothing(r) =>
                /\ Owns(frame[r].userId, frame[r].projectId)
                /\ calls[r][1] = Call("projects.select", EmptyText, "ok")
          /\ (Called(r, "projects.select")
                 /\ ~Owns(frame[r].userId, frame[r].projectId)) =>
                /\ pc[r] = "done"
                /\ response[r] = ErrorResponse(404, "Project not found")
                /\ Len(calls[r]) = 1
                /\ WroteNothing(r)
    /\ \A d \in data_sources : d.project_id = frame[d.id].projectId
    /\ \A p \in synthesis_parameters : p.project_id = frame[p.id[1]].projectId
    /\ \A o \in storage :
          \E t \in 1..MaxStamp :
              o.name = StoragePath(frame[o.by].userId, frame[o.by].projectId, t,
                                   frame[o.by].file.name)

\* A user asking for another user's project is answered 404 while the owner's
\* request has written its rows.
ForeignProjectRefused ==
    \E r, q \in Req :
        /\ frame[r].projectId = frame[q].projectId
        /\ Owns(frame[q].userId, frame[q].projectId)
        /\ ~Owns(frame[r].userId, frame[r].projectId)
        /\ response[r].code = 404
        /\ RowsOf(q) # {}
        /\ SummariesOf(q) # {}

(***************************************************************************)
(* C14: when an upload (file or URL) is answered success with status       *)
(* 'processed', its data_sources row is stored with status 'processed'.    *)
(***************************************************************************)
ResponseStatusStored ==
    \A r \in Uploads :
        (pc[r] = "done" /\ response[r].success /\ response[r].status = "processed") =>
            /\ RowsOf(r) # {}
            /\ \A d \in RowsOf(r) : d.status = "processed"

(***************************************************************************)
(* C15: objects are stored under userId/projectId/timestamp_sanitizedName; *)
(* no two objects share a path and the object of every successful upload   *)
(* is still the one stored under its path (no upload overwrites another);  *)
(* a file request whose upload failed, for an existing path or any other   *)
(* reason, ends with 500 'Failed to upload file' after the ownership query *)
(* and the upload alone: no extraction, no data_sources row, no summaries. *)
(***************************************************************************)
UploadFailed(r) == Called(r, "storage.upload") /\ ~CalledWith(r, "storage.upload", "ok")

UploadNeverOverwrites ==
    /\ \A o, q \in storage : o.name = q.name => o = q
    /\ \A o \in storage :
          \E t \in 1..MaxStamp :
              o.name = frame[o.by].userId \o "/" \o frame[o.by].projectId \o "/"
                          \o ToString(t) \o "_" \o Join(SanitizedName(frame[o.by].file.name))
    /\ \A r \in Req :
          /\ CalledWith(r, "storage.upload", "ok") =>
                \E o \in ObjectsBy(r) : PublicUrl(o.name) = frame[r].url
          /\ UploadFailed(r) =>
                /\ pc[r] = "done"
                /\ response[r] = ErrorResponse(500, "Failed to upload file")
                /\ Len(calls[r]) = 2
                /\ frame[r].extractedText = EmptyText
                /\ WroteNothing(r)

\* An upload to a path that another request's object already holds, refused,
\* and the first object still in place.
UploadCollisionRefused ==
    \E r, q \in Req :
        /\ CalledWith(r, "storage.upload", "ok")
        /\ CalledWith(q, "storage.upload", "exists")
        /\ response[q].error = "Failed to upload file"
        /\ ObjectsBy(r) # {}

(***************************************************************************)
(* C16: a file request whose data_sources insert failed ends with 500      *)
(* 'Failed to create data source record', has made no summary call and no  *)
(* status update and has no row, while the object it uploaded is still in  *)
(* the bucket and no data_sources row references it.                       *)
(***************************************************************************)
FileInsertFailed(r) ==
    frame[r].kind = "file" /\ CalledWith(r, "data_sources.insert", "fail")

InsertFailureLeavesObject ==
    \A r \in Req :
        FileInsertFailed(r) =>
            /\ pc[r] = "done"
            /\ response[r] = ErrorResponse(500, "Failed to create data source record")
            /\ SummaryCalls(r) = <<>>
            /\ ~Called(r, "data_sources.update")
            /\ RowsOf(r) = {}
            /\ SummariesOf(r) = {}
            /\ \E o \in ObjectsBy(r) :
                  /\ PublicUrl(o.name) = frame[r].url
                  /\ \A d \in data_sources : d.content_url # PublicUrl(o.name)

\* A file request whose insert failed after its extraction had succeeded.
OrphanObjectLeft ==
    \E r \in Req :
        /\ FileInsertFailed(r)
        /\ frame[r].extractedText.kind = "document"
        /\ ObjectsBy(r) # {}

(***************************************************************************)
(* C17: every data source has at most one summary of each level, hence at  *)
(* most three, each of a level of the enum; and the inserts are attempted  *)
(* in the order sentence, paragraph, full: the paragraph insert only after *)
(* the sentence insert was attempted, the full insert only after the       *)
(* paragraph insert was attempted, so every level stored has had the       *)
(* inserts of all levels before it attempted.                              *)
(***************************************************************************)
LevelOrder == <<"sentence", "paragraph", "full">>
InsertAttempts(r, level) == Calls(r, "summaries.insert." \o level)

ParentLevel(level) == IF level = "full" THEN "paragraph" ELSE "sentence"

SummariesParentChain ==
    \A s \in summaries :
        IF s.level = "sentence"
        THEN s.parent_id = NoId
        ELSE \E t \in summaries :
                /\ t.id = s.parent_id
                /\ t.data_source_id = s.data_source_id
                /\ t.level = ParentLevel(s.level)

(***************************************************************************)
(* C19: a file request whose row was inserted goes into generateSummaries  *)
(* exactly when its extracted text is longer than 50 characters, and       *)
(* otherwise still issues the status update and answers success with       *)
(* 'processed' and no summaries; a URL request whose page was fetched is   *)
(* answered 400 'Could not extract meaningful content' exactly when its    *)
(* text is shorter than 50 characters, and otherwise goes on to the insert *)
(* and, once the row is inserted, into generateSummaries.                  *)
(***************************************************************************)
Summarised(r) == pc[r] = "sentenceChat" \/ SummaryCalls(r) # <<>>

MinimumContentRule ==
    \A r \in Req :
        /\ (frame[r].kind = "file" /\ CalledWith(r, "data_sources.insert", "ok")) =>
              /\ Summarised(r) <=> frame[r].extractedText.len > 50
              /\ ~Summarised(r) =>
                    /\ pc[r] = "update" \/ Called(r, "data_sources.update")
                    /\ SummariesOf(r) = {}
                    /\ RowsOf(r) # {}
                    /\ pc[r] = "done" =>
                          /\ response[r] = SuccessResponse("processed")
                          /\ CalledWith(r, "data_sources.update", "ok") =>
                                \A d \in RowsOf(r) : d.status = "processed"
        /\ (frame[r].kind = "url" /\ CalledWith(r, "fetch", "ok")) =>
              /\ (/\ pc[r] = "done"
                  /\ response[r] = ErrorResponse(400,
                         "Could not extract meaningful content from this URL")
                  /\ Len(calls[r]) = 3)
                    <=> frame[r].extractedText.len < 50
              /\ frame[r].extractedText.len >= 50 =>
                    /\ pc[r] = "insert" \/ Called(r, "data_sources.insert")
                    /\ CalledWith(r, "data_sources.insert", "ok") => Summarised(r)

\* A text of exactly 50 characters: not summarised by a finished file request,
\* summarised by a URL request.
BoundaryTextBothRoutes ==
    \E r, q \in Req :
        /\ frame[r].kind = "file" /\ frame[q].kind = "url"
        /\ frame[r].extractedText.len = 50 /\ frame[q].extractedText.len = 50
        /\ pc[r] = "done" /\ response[r].success /\ SummaryCalls(r) = <<>>
        /\ SummariesOf(q) # {}

(***************************************************************************)
(* C20: every project createProject has inserted carries the id of the     *)
(* authenticated caller as user_id and the caller's non-empty name; a call *)
(* without a user is redirected to /sign-in, a call with a missing or      *)
(* empty name returns the error 'Project name is required', both without   *)
(* any database call; a call whose insert failed returns the error and not *)
(* success, and no project of it is stored; success is returned only with  *)
(* the project stored.                                                     *)
(***************************************************************************)
ProjectsBy(r) == {p \in projects : p.id = NewProjectId(r)}
Creators == {r \in Req : frame[r].kind = "createProject"}

ProjectCreatedOnlyForCaller ==
    /\ \A p \in projects \ InitialProjects :
          \E r \in Creators :
              /\ p \in ProjectsBy(r)
              /\ frame[r].userId \in Users
              /\ p.user_id = frame[r].userId
              /\ ~frame[r].name.null
              /\ p.name = frame[r].name.text
              /\ p.name # ""
    /\ \A r \in Creators :
          /\ frame[r].userId = NoUser =>
                /\ pc[r] = "done"
                /\ response[r] = [redirect |-> "/sign-in", error |-> "", success |-> FALSE]
                /\ calls[r] = <<>>
                /\ ProjectsBy(r) = {}
          /\ (frame[r].userId # NoUser /\ (frame[r].name.null \/ frame[r].name.text = "")) =>
                /\ pc[r] = "done"
                /\ response[r].error = "Project name is required"
                /\ ~response[r].success
                /\ calls[r] = <<>>
                /\ ProjectsBy(r) = {}
          /\ CalledWith(r, "projects.insert", "fail") =>
                /\ pc[r] = "done"
                /\ response[r].error # ""
                /\ ~response[r].success
                /\ ProjectsBy(r) = {}
          /\ (pc[r] = "done" /\ response[r].success) => ProjectsBy(r) # {}

\* One call has stored its project and another call's insert has failed.
ProjectStoredAndRefused ==
    \E r, q \in Creators :
        /\ response[r].success /\ ProjectsBy(r) # {}
        /\ CalledWith(q, "projects.insert", "fail") /\ response[q].error # ""

(***************************************************************************)
(* C9: for every cell (d, p) of the table, getCellValue returns the last   *)
(* value of the array whose data_source_id is d and parameter_id is p when *)
(* there is one, and undefined otherwise, never a value of another pair;   *)
(* a cell without a value that is not being edited shows 'Click to add'.   *)
(***************************************************************************)
ValuesOfPair(d, p) ==
    {i \in DOMAIN synthesisValues :
        synthesisValues[i].data_source_id = d /\ synthesisValues[i].parameter_id = p}

CellLookupSparse ==
    \A d \in TableSources, p \in TableParameters :
        LET hits == ValuesOfPair(d, p)
            cell == getCellValue(d, p)
        IN /\ hits # {} =>
                /\ cell.data_source_id = d
                /\ cell.parameter_id = p
                /\ cell.id \in hits
                /\ \A i \in hits : i <= cell.id
           /\ hits = {} => cell = Undefined
           /\ (hits = {} /\ editingCell # [dataSourceId |-> d, parameterId |-> p]) =>
                renderCell(d, p) = [view |-> "cell", text |-> "Click to add"]

\* A table with two values for one cell and none for another cell of the same row.
CellLookupCases ==
    \E d \in TableSources, p, q \in TableParameters :
        /\ Cardinality(ValuesOfPair(d, p)) = 2
        /\ ValuesOfPair(d, q) = {}
        /\ renderCell(d, q).text = "Click to add"
        /\ editingCell = [dataSourceId |-> d, parameterId |-> p]

====
